---- MODULE Spec2Model ----
(***************************************************************************)
(* The ChatWidget component (completion-endpoint variant): its four hook   *)
(* states, the context-document effect, the asynchronous handleSendMessage *)
(* handler and the expand / collapse buttons.                              *)
(*                                                                         *)
(* Text is a sequence of one-character strings, so that String.trim() and  *)
(* the prompt template are computed rather than assumed.                   *)
(*                                                                         *)
(* Every state update is followed by the re-render it schedules, within    *)
(* the same step: an event handler sees, when it starts, the state of the  *)
(* latest update (variable closure holds what the handlers of the last     *)
(* render close over). An invocation of handleSendMessage keeps the values *)
(* it closed over across its awaits.                                       *)
(*                                                                         *)
(* A message record is {text, sender, timestamp}. The timestamp is a       *)
(* display string read from the wall clock when the record is built; no    *)
(* code reads it back, and the records here carry text and sender.         *)
(***************************************************************************)
EXTENDS Naturals, Sequences, FiniteSets

\* ------------------------------------------------------------------ bounds
MaxExchanges == 2    \* accepted submits (invocations that pass line 20)
MaxFetches   == 2    \* context fetches issued by the effect
MaxTimers    == 2    \* timers set by the timer variant of the handler

\* ------------------------------------------------------------------ values
WS == {" "}
Inputs == {<<>>, <<" ">>, <<" ", "a">>}
Completions == {<<" ", "h", " ">>, <<" ">>}
NoUrl == ""
Urls == {NoUrl, "u1", "u2"}
NoKey == ""
Keys == {NoKey, "sk"}
Endpoint == "https://api.openai.com/v1/completions"
NoData == [kind |-> "none", text |-> <<>>]
\* What response.json() of a non-success response can give: an error object
\* with a message, a body without an error object.
ErrorBodies == {[kind |-> "message", text |-> <<"m">>],
                [kind |-> "noError", text |-> <<>>]}
\* What response.json() of a success response can give: no JSON, no choices,
\* an empty choices list, a first choice without text, a first choice with text.
OkBodies == {[kind |-> k, text |-> <<>>] :
               k \in {"notJson", "noChoices", "emptyChoices", "noText"}}
            \cup {[kind |-> "text", text |-> t] : t \in Completions}

\* The text the server holds at a context location.
DocAt(u) == IF u = "u1" THEN <<"d">> ELSE <<"e">>

VARIABLES
  isExpanded,   \* useState(false)
  messages,     \* useState([])
  inputText,    \* useState('')
  fileContent,  \* useState('')
  closure,      \* the state values captured by the handlers of the last render
  fileUrl,      \* the fileUrl prop
  apiKey,       \* process.env.REACT_APP_OPENAI_API_KEY
  fetches,      \* the effect's context fetches still in flight
  fetchCount,   \* history: the context fetches issued so far
  exchanges,    \* the invocations of handleSendMessage that passed line 20
  requests,     \* the completion requests issued, in order
  console,      \* console.error output, in order
  timers,       \* src/ChatWidget.jsx: the setTimeout calls of handleSendMessage
  rejected      \* history: the input as it is, once line 20 returned on it

vars == <<isExpanded, messages, inputText, fileContent, closure, fileUrl,
          apiKey, fetches, fetchCount, exchanges, requests, console, rejected,
          timers>>

\* ------------------------------------------------------------ pure helpers
RECURSIVE TrimStart(_)
TrimStart(s) ==
  IF s # <<>> /\ Head(s) \in WS THEN TrimStart(Tail(s)) ELSE s

RECURSIVE TrimEnd(_)
TrimEnd(s) ==
  IF s # <<>> /\ s[Len(s)] \in WS THEN TrimEnd(SubSeq(s, 1, Len(s) - 1)) ELSE s

\* A trim that leaves the string as it is.
Trim_None(s) == s

\* String.prototype.trim
Trim(s) == TrimEnd(TrimStart(s))

\* `Context: ${fileContent}\n\nUser: ${inputText}\n\nBot:`
Prompt(context, input) ==
  <<"Context: ">> \o context \o <<"\n\nUser: ">> \o input \o <<"\n\nBot:">>

\* A user record that stores the trimmed input.
NewMessage_Trimmed(input) == [text |-> Trim(input), sender |-> "user"]

\* const newMessage = { text: inputText, sender: 'user', ... }
NewMessage(input) == [text |-> input, sender |-> "user"]

\* A bot record that keeps the completion untrimmed.
BotResponse_Raw(completion) == [text |-> completion, sender |-> "bot"]

\* const botResponse = { text: data.choices[0].text.trim(), sender: "bot", ... }
BotResponse(completion) == [text |-> Trim(completion), sender |-> "bot"]

\* setMessages([...messages, newMessage])
UserUpdate(captured, newMessage) == Append(captured, newMessage)

\* An update in which a reply takes the place of the reply before it.
BotUpdate_Replace(prevMessages, botResponse) ==
  IF prevMessages # <<>> /\ prevMessages[Len(prevMessages)].sender = "bot"
  THEN [prevMessages EXCEPT ![Len(prevMessages)] = botResponse]
  ELSE Append(prevMessages, botResponse)

\* An update that appends the reply twice.
BotUpdate_Twice(prevMessages, botResponse) ==
  prevMessages \o <<botResponse, botResponse>>

\* setMessages(prevMessages => [...prevMessages, botResponse])
BotUpdate(prevMessages, botResponse) == Append(prevMessages, botResponse)

\* A render whose handlers miss the record a functional update appended.
Render_Stale(m, t, f) ==
  [messages |-> IF m # <<>> /\ m[Len(m)].sender = "bot"
                THEN SubSeq(m, 1, Len(m) - 1) ELSE m,
   inputText |-> t, fileContent |-> f]

\* The values the handlers of a render close over.
Render(m, t, f) == [messages |-> m, inputText |-> t, fileContent |-> f]

Rerender == closure' = Render(messages', inputText', fileContent')

\* An effect body without its guard.
Effect_NoGuard(u) == <<[url |-> u, pc |-> "fetch"]>>

\* The effect body: fetch(fileUrl) when fileUrl is truthy.
Effect(u) == IF u # NoUrl THEN <<[url |-> u, pc |-> "fetch"]>> ELSE <<>>

\* A settled promise leaves the list of those in flight.
Remove(s, k) == SubSeq(s, 1, k - 1) \o SubSeq(s, k + 1, Len(s))

\* ---------------------------------------------------------------- Init
Init ==
  /\ isExpanded = FALSE
  /\ messages = <<>>
  /\ inputText = <<>>
  /\ fileContent = <<>>
  /\ closure = Render(<<>>, <<>>, <<>>)
  /\ fileUrl \in Urls
  /\ apiKey \in Keys
  /\ fetches = Effect(fileUrl)
  /\ fetchCount = Len(Effect(fileUrl))
  /\ exchanges = <<>>
  /\ requests = <<>>
  /\ console = <<>>
  /\ rejected = <<>>
  /\ timers = <<>>

\* ------------------------------------------------ expand / collapse / input
\* onClick={() => setIsExpanded(true)}: the button of the collapsed view
Expand ==
  /\ ~isExpanded
  /\ isExpanded' = TRUE
  /\ UNCHANGED <<timers, messages, inputText, fileContent, fileUrl, apiKey,
                 fetches, fetchCount,
                 exchanges, requests, console, rejected>>
  /\ Rerender

\* A close button that also empties the transcript.
Collapse_Clears ==
  /\ isExpanded
  /\ isExpanded' = FALSE
  /\ messages' = <<>>
  /\ UNCHANGED <<timers, inputText, fileContent, fileUrl, apiKey, fetches, fetchCount,
                 exchanges, requests, console, rejected>>
  /\ closure' = [closure EXCEPT !.messages = <<>>]

\* A close button that abandons the exchanges in flight.
Collapse_Cancels ==
  /\ isExpanded
  /\ isExpanded' = FALSE
  /\ exchanges' = [i \in DOMAIN exchanges |->
                     IF exchanges[i].pc \in {"done", "caught"} THEN exchanges[i]
                     ELSE [exchanges[i] EXCEPT !.pc = "caught"]]
  /\ UNCHANGED <<timers, messages, inputText, fileContent, fileUrl, apiKey,
                 fetches, fetchCount, requests, console, rejected>>
  /\ Rerender

\* onClick={() => setIsExpanded(false)}: the close button of the expanded view
Collapse ==
  /\ isExpanded
  /\ isExpanded' = FALSE
  /\ UNCHANGED <<timers, messages, inputText, fileContent, fileUrl, apiKey,
                 fetches, fetchCount,
                 exchanges, requests, console, rejected>>
  /\ Rerender

\* onChange={(e) => setInputText(e.target.value)}
OnChange(value) ==
  /\ isExpanded
  /\ value # inputText
  /\ inputText' = value
  /\ rejected' = <<>>
  /\ UNCHANGED <<timers, isExpanded, messages, fileContent, fileUrl, apiKey,
                 fetches, fetchCount, exchanges, requests, console>>
  /\ Rerender

\* ------------------------------------------------------ context document
\* The parent renders the widget with another fileUrl; the effect runs again.
ChangeFileUrl(u) ==
  /\ u # fileUrl
  /\ fetchCount + Len(Effect(u)) <= MaxFetches
  /\ fileUrl' = u
  /\ fetches' = fetches \o Effect(u)
  /\ fetchCount' = fetchCount + Len(Effect(u))
  /\ UNCHANGED <<timers, isExpanded, messages, inputText, fileContent, apiKey,
                 exchanges, requests, console, rejected>>
  /\ Rerender

\* fetch(fileUrl) resolves: .then(response => response.text())
FileFetchResolve(k) ==
  /\ fetches[k].pc = "fetch"
  /\ fetches' = [fetches EXCEPT ![k].pc = "text"]
  /\ UNCHANGED <<timers, isExpanded, messages, inputText, fileContent, fileUrl, apiKey, fetchCount,
                 exchanges, requests, console, rejected>>
  /\ Rerender

\* response.text() resolves: .then(text => setFileContent(text))
FileTextResolve(k) ==
  /\ fetches[k].pc = "text"
  /\ fetches' = Remove(fetches, k)
  /\ fileContent' = DocAt(fetches[k].url)
  /\ UNCHANGED <<timers, isExpanded, messages, inputText, fileUrl, apiKey, fetchCount,
                 exchanges, requests, console, rejected>>
  /\ Rerender

\* fetch or response.text() rejects: .catch(error => console.error(...))
FileFetchReject(k) ==
  /\ fetches' = Remove(fetches, k)
  /\ console' = Append(console, <<"Error fetching file content:", "error">>)
  /\ UNCHANGED <<timers, isExpanded, messages, inputText, fileContent, fileUrl, apiKey, fetchCount,
                 exchanges, requests, rejected>>
  /\ Rerender

\* ------------------------------------------------------ handleSendMessage
\* console.error("Error fetching bot response:", error.message)
Caught(message) == <<"Error fetching bot response:", message>>

\* A request that carries no credential.
Request_Anonymous(key, context, input) ==
  [url |-> Endpoint, auth |-> <<"Bearer ", NoKey>>, prompt |-> Prompt(context, input)]

\* The request of lines 38-50.
Request(key, context, input) ==
  [url |-> Endpoint, auth |-> <<"Bearer ", key>>, prompt |-> Prompt(context, input)]

\* An invocation suspended at an await (or finished). inputText is the value
\* the invocation closed over, key its apiKey constant, ok its response.ok and
\* data what response.json() gave it; userIdx, botIdx and requestIdx are
\* history: where its records went in the transcript and which request of
\* the list is its own (0: none); collapsed is history too: the widget was
\* collapsed when the bot record was appended.
Exchange(pc, input, key, userIdx, requestIdx) ==
  [pc |-> pc, inputText |-> input, key |-> key, ok |-> FALSE, data |-> NoData,
   userIdx |-> userIdx, botIdx |-> 0, requestIdx |-> requestIdx,
   collapsed |-> FALSE]

\* A credential check that lets every value pass.
HasKey_Always(key) == TRUE

\* Line 34: if (!apiKey) throw
HasKey(key) == key # NoKey

\* A check that takes a first choice without text for an empty completion.
HasCompletion_Lenient(body) == body.kind \in {"text", "noText"}

\* Lines 57-63: the body parses, choices is a non-empty list and its first
\* element has a text.
HasCompletion(body) == body.kind = "text"

\* A handler that leaves the submitted text in the input.
HandleSendMessage_KeepsInput ==
  /\ isExpanded
  /\ IF Trim(closure.inputText) = <<>>
     THEN /\ rejected' = <<closure.inputText>>
          /\ UNCHANGED <<messages, exchanges, requests, console>>
     ELSE /\ Len(exchanges) < MaxExchanges
          /\ messages' = UserUpdate(closure.messages, NewMessage(closure.inputText))
          /\ IF ~HasKey(apiKey)
             THEN /\ console' = Append(console, Caught(<<"API key is missing.">>))
                  /\ exchanges' = Append(exchanges,
                       Exchange("caught", closure.inputText, apiKey, Len(messages'), 0))
                  /\ UNCHANGED requests
             ELSE /\ requests' = Append(requests,
                       Request(apiKey, closure.fileContent, closure.inputText))
                  /\ exchanges' = Append(exchanges,
                       Exchange("fetch", closure.inputText, apiKey, Len(messages'),
                                Len(requests')))
                  /\ UNCHANGED console
          /\ rejected' = <<>>
  /\ UNCHANGED <<timers, isExpanded, inputText, fileContent, fileUrl, apiKey, fetches, fetchCount>>
  /\ Rerender

\* Lines 19-50: the handler up to its first await, from the send button or Enter.
HandleSendMessage ==
  /\ isExpanded
  /\ IF Trim(closure.inputText) = <<>>
     THEN /\ rejected' = <<closure.inputText>>
          /\ UNCHANGED <<messages, inputText, exchanges, requests, console>>
     ELSE /\ Len(exchanges) < MaxExchanges
          /\ messages' = UserUpdate(closure.messages, NewMessage(closure.inputText))
          /\ inputText' = <<>>
          /\ IF ~HasKey(apiKey)
             THEN /\ console' = Append(console, Caught(<<"API key is missing.">>))
                  /\ exchanges' = Append(exchanges,
                       Exchange("caught", closure.inputText, apiKey, Len(messages'), 0))
                  /\ UNCHANGED requests
             ELSE /\ requests' = Append(requests,
                       Request(apiKey, closure.fileContent, closure.inputText))
                  /\ exchanges' = Append(exchanges,
                       Exchange("fetch", closure.inputText, apiKey, Len(messages'),
                                Len(requests')))
                  /\ UNCHANGED console
          /\ rejected' = <<>>
  /\ UNCHANGED <<timers, isExpanded, fileContent, fileUrl, apiKey, fetches, fetchCount>>
  /\ Rerender

\* Line 38: fetch resolves with a response; its body is still to be read.
FetchResolve(i, ok) ==
  /\ exchanges[i].pc = "fetch"
  /\ exchanges' = [exchanges EXCEPT ![i].pc = IF ok THEN "json" ELSE "errorJson",
                                    ![i].ok = ok]
  /\ UNCHANGED <<timers, isExpanded, messages, inputText, fileContent, fileUrl, apiKey,
                 fetches, fetchCount, requests, console, rejected>>
  /\ Rerender

\* A rejection that is never delivered to the handler.
FetchReject_Hangs(i) ==
  /\ exchanges[i].pc = "fetch"
  /\ exchanges' = [exchanges EXCEPT ![i].pc = "hung"]
  /\ UNCHANGED <<timers, isExpanded, messages, inputText, fileContent, fileUrl, apiKey,
                 fetches, fetchCount, requests, console, rejected>>
  /\ Rerender

\* Line 38: fetch rejects (transport error); line 71 logs it.
FetchReject(i) ==
  /\ exchanges[i].pc = "fetch"
  /\ exchanges' = [exchanges EXCEPT ![i].pc = "caught"]
  /\ console' = Append(console, Caught(<<"Failed to fetch">>))
  /\ UNCHANGED <<timers, isExpanded, messages, inputText, fileContent, fileUrl, apiKey,
                 fetches, fetchCount, requests, rejected>>
  /\ Rerender

\* error.message of what lines 53-54 throw for a non-success response.
ErrorMessage(body) ==
  IF body.kind = "message" THEN <<"API Error: 500 - ">> \o body.text
                           ELSE <<"TypeError">>

\* A handler that shows the failure in the transcript.
ErrorJsonSettle_Shown(i, body) ==
  /\ exchanges[i].pc = "errorJson"
  /\ exchanges' = [exchanges EXCEPT ![i].pc = "caught", ![i].data = body]
  /\ console' = Append(console, Caught(ErrorMessage(body)))
  /\ messages' = Append(messages, [text |-> ErrorMessage(body), sender |-> "error"])
  /\ UNCHANGED <<timers, isExpanded, inputText, fileContent, fileUrl, apiKey,
                 fetches, fetchCount, requests, rejected>>
  /\ Rerender

\* Lines 52-55: response.json() of a non-success response settles; every
\* outcome throws, and line 71 logs it.
ErrorJsonSettle(i, body) ==
  /\ exchanges[i].pc = "errorJson"
  /\ exchanges' = [exchanges EXCEPT ![i].pc = "caught", ![i].data = body]
  /\ console' = Append(console, Caught(ErrorMessage(body)))
  /\ UNCHANGED <<timers, isExpanded, messages, inputText, fileContent, fileUrl, apiKey,
                 fetches, fetchCount, requests, rejected>>
  /\ Rerender

\* error.message of what lines 57-63 throw for a success response.
InvalidMessage(body) ==
  CASE body.kind = "notJson" -> <<"SyntaxError">>
    [] body.kind = "noText"  -> <<"TypeError">>
    [] OTHER                 -> <<"Invalid response from OpenAI API.">>

\* Lines 57-72: response.json() of a success response settles.
JsonSettle(i, body) ==
  /\ exchanges[i].pc = "json"
  /\ IF HasCompletion(body)
     THEN /\ messages' = BotUpdate(messages, BotResponse(body.text))
          /\ exchanges' = [exchanges EXCEPT ![i].pc = "done", ![i].data = body,
                                            ![i].botIdx = Len(messages'),
                                            ![i].collapsed = ~isExpanded]
          /\ UNCHANGED console
     ELSE /\ console' = Append(console, Caught(InvalidMessage(body)))
          /\ exchanges' = [exchanges EXCEPT ![i].pc = "caught", ![i].data = body]
          /\ UNCHANGED messages
  /\ UNCHANGED <<timers, isExpanded, inputText, fileContent, fileUrl, apiKey,
                 fetches, fetchCount, requests, rejected>>
  /\ Rerender

Next ==
  \/ Expand
  \/ Collapse
  \/ \E value \in Inputs : OnChange(value)
  \/ \E k \in DOMAIN fetches : FileFetchResolve(k)
  \/ \E k \in DOMAIN fetches : FileTextResolve(k)
  \/ \E k \in DOMAIN fetches : FileFetchReject(k)
  \/ HandleSendMessage
  \/ \E i \in DOMAIN exchanges, ok \in BOOLEAN : FetchResolve(i, ok)
  \/ \E i \in DOMAIN exchanges : FetchReject(i)
  \/ \E i \in DOMAIN exchanges, body \in ErrorBodies : ErrorJsonSettle(i, body)
  \/ \E i \in DOMAIN exchanges, body \in OkBodies : JsonSettle(i, body)

\* The widget under a parent that keeps its props.
Spec == Init /\ [][Next]_vars

\* The widget under a parent that may render it with another fileUrl.
NextProps ==
  \/ Next
  \/ \E u \in Urls : ChangeFileUrl(u)

SpecProps == Init /\ [][NextProps]_vars

\* Line 33 reads process.env at each call: the environment is given another
\* value of the credential between two calls.
SetEnv(key) ==
  /\ key # apiKey
  /\ apiKey' = key
  /\ UNCHANGED <<timers, isExpanded, messages, inputText, fileContent, closure, fileUrl,
                 fetches, fetchCount, exchanges, requests, console, rejected>>

\* The widget in an environment whose credential may change.
NextEnv ==
  \/ Next
  \/ \E key \in Keys : SetEnv(key)

SpecEnv == Init /\ [][NextEnv]_vars

\* Lines 38-68: the awaits of invocation i. The network settles every request
\* and every body read, and the event loop resumes the handler after each.
Complete(i) ==
  /\ i \in DOMAIN exchanges
  /\ \/ \E ok \in BOOLEAN : FetchResolve(i, ok)
     \/ FetchReject(i)
     \/ \E body \in ErrorBodies : ErrorJsonSettle(i, body)
     \/ \E body \in OkBodies : JsonSettle(i, body)

\* The widget on a network in which every issued request completes.
SpecFair == Spec /\ \A i \in 1..MaxExchanges : WF_vars(Complete(i))

\* ------------------------------------------- src/ChatWidget.jsx (timers)
\* The variant of the widget that answers from a timer: no context document,
\* no credential, no request. Its expand and close buttons and its input are
\* those of the widget above.
Delay == 500
Elapsed == {Delay \div 2, Delay}
InputsTimer == Inputs \cup {<<"b">>}

\* A reply that reads the input when the timer expires.
BotEcho_Live(captured) ==
  [text |-> <<"You said: ">> \o inputText, sender |-> "bot"]

\* {text: `You said: ${inputText}`, sender: 'bot'}, inputText being the value
\* the handler closed over.
BotEcho(captured) ==
  [text |-> <<"You said: ">> \o captured, sender |-> "bot"]

\* A setTimeout call: the text its callback closed over and the time left
\* until it is due; userIdx, botIdx and collapsed are history, as above.
Timer(input, delay, userIdx) ==
  [pc |-> "pending", inputText |-> input, remaining |-> delay,
   userIdx |-> userIdx, botIdx |-> 0, collapsed |-> FALSE]

InitTimer ==
  /\ isExpanded = FALSE
  /\ messages = <<>>
  /\ inputText = <<>>
  /\ fileContent = <<>>
  /\ closure = Render(<<>>, <<>>, <<>>)
  /\ fileUrl = NoUrl
  /\ apiKey = NoKey
  /\ fetches = <<>>
  /\ fetchCount = 0
  /\ exchanges = <<>>
  /\ requests = <<>>
  /\ console = <<>>
  /\ rejected = <<>>
  /\ timers = <<>>

\* Lines 214-235: the handler, from the send button or Enter.
HandleSendMessageTimer ==
  /\ isExpanded
  /\ IF Trim(closure.inputText) = <<>>
     THEN /\ rejected' = <<closure.inputText>>
          /\ UNCHANGED <<messages, inputText, timers>>
     ELSE /\ Len(timers) < MaxTimers
          /\ messages' = UserUpdate(closure.messages, NewMessage(closure.inputText))
          /\ inputText' = <<>>
          /\ timers' = Append(timers, Timer(closure.inputText, Delay, Len(messages')))
          /\ rejected' = <<>>
  /\ UNCHANGED <<isExpanded, fileContent, fileUrl, apiKey, fetches, fetchCount,
                 exchanges, requests, console>>
  /\ Rerender

\* Time passes while a timer is waiting.
Tick(d) ==
  /\ \E k \in DOMAIN timers : timers[k].pc = "pending" /\ timers[k].remaining > 0
  /\ timers' = [k \in DOMAIN timers |->
                  IF timers[k].pc = "pending"
                  THEN [timers[k] EXCEPT !.remaining = IF @ > d THEN @ - d ELSE 0]
                  ELSE timers[k]]
  /\ UNCHANGED <<isExpanded, messages, inputText, fileContent, closure, fileUrl,
                 apiKey, fetches, fetchCount, exchanges, requests, console, rejected>>

\* Lines 227-234: the callback of timer k runs. A timer runs once it is due
\* and no timer set before it that is due no later is still waiting.
TimerFire(k) ==
  /\ timers[k].pc = "pending"
  /\ timers[k].remaining = 0
  /\ ~\E j \in 1..(k - 1) :
        timers[j].pc = "pending" /\ timers[j].remaining <= timers[k].remaining
  /\ messages' = BotUpdate(messages, BotEcho(timers[k].inputText))
  /\ timers' = [timers EXCEPT ![k].pc = "fired", ![k].botIdx = Len(messages'),
                              ![k].collapsed = ~isExpanded]
  /\ UNCHANGED <<isExpanded, inputText, fileContent, fileUrl, apiKey, fetches,
                 fetchCount, exchanges, requests, console, rejected>>
  /\ Rerender

NextTimer ==
  \/ Expand
  \/ Collapse
  \/ \E value \in InputsTimer : OnChange(value)
  \/ HandleSendMessageTimer
  \/ \E d \in Elapsed : Tick(d)
  \/ \E k \in DOMAIN timers : TimerFire(k)

SpecTimer == InitTimer /\ [][NextTimer]_vars

\* Time does not stop and the event loop runs the callback of a due timer.
SpecTimerFair ==
  /\ SpecTimer
  /\ WF_vars(\E d \in Elapsed : Tick(d))
  /\ \A k \in 1..MaxTimers : WF_vars(k \in DOMAIN timers /\ TimerFire(k))


\* ------------------------------------------------------------------ claims
IsPrefix(s, t) == Len(s) <= Len(t) /\ SubSeq(t, 1, Len(s)) = s
Records(ms, sender) == {k \in DOMAIN ms : ms[k].sender = sender}
IsBlank(s) == \A k \in DOMAIN s : s[k] = " "
Accepted == Len(exchanges') = Len(exchanges) + 1

C2_UserRecordFirst ==
  /\ [][Accepted =>
          /\ ~IsBlank(inputText)
          /\ messages' = Append(messages, [text |-> inputText, sender |-> "user"])
          /\ exchanges'[Len(exchanges')].userIdx = Len(messages')
          /\ Len(requests') <= Len(requests) + 1]_vars
  /\ [](/\ Cardinality(Records(messages, "user")) = Len(exchanges)
        /\ Len(requests) <= Len(exchanges)
        /\ \A i \in DOMAIN exchanges :
             /\ exchanges[i].userIdx \in Records(messages, "user")
             /\ messages[exchanges[i].userIdx].text = exchanges[i].inputText
             /\ exchanges[i].botIdx # 0 =>
                  /\ exchanges[i].userIdx < exchanges[i].botIdx
                  /\ exchanges[i].botIdx \in Records(messages, "bot"))

\* A submit of an input with surrounding whitespace got its reply.
C2_Witness ==
  \E i \in DOMAIN exchanges :
    /\ exchanges[i].botIdx # 0
    /\ messages[exchanges[i].userIdx].text = <<" ", "a">>

\* C3: a submit of an empty or whitespace-only input appends nothing and
\* issues no request. While the input is blank no step adds a user record,
\* starts an exchange or issues a request, and the step of a rejected submit
\* leaves transcript, requests, exchanges, input and console as they were.
C3_BlankRejected ==
  [][/\ IsBlank(inputText) =>
          /\ Records(messages', "user") = Records(messages, "user")
          /\ exchanges' = exchanges \/ Len(exchanges') = Len(exchanges)
          /\ requests' = requests
     /\ (rejected' # rejected /\ rejected' # <<>>) =>
          /\ IsBlank(inputText)
          /\ rejected' = <<inputText>>
          /\ UNCHANGED <<messages, requests, exchanges, inputText, console>>]_vars

\* A whitespace-only submit was rejected after an exchange had started.
C3_Witness == rejected = <<<<" ">>>> /\ Len(requests) = 1 /\ Len(messages) = 1

\* What trimming must give: the text between the first and the last
\* character that is not a space.
Stripped(s) ==
  IF IsBlank(s) THEN <<>>
  ELSE LET solid == {k \in DOMAIN s : s[k] # " "}
           first == CHOOSE k \in solid : \A j \in solid : k <= j
           last  == CHOOSE k \in solid : \A j \in solid : j <= k
       IN  SubSeq(s, first, last)
Logged == {k \in DOMAIN console : console[k][1] = "Error fetching bot response:"}
Settled(pc) == {i \in DOMAIN exchanges : exchanges[i].pc = pc}
Succeeded(e) == e.ok /\ e.data.kind = "text"

C5_FailureSilent ==
  /\ [][\A i \in DOMAIN exchanges :
          exchanges[i].pc # "caught" /\ exchanges'[i].pc = "caught" =>
            /\ messages' = messages
            /\ requests' = requests
            /\ Len(console') = Len(console) + 1
            /\ Len(console') \in Logged']_vars
  /\ [](/\ \A i \in DOMAIN exchanges :
             (exchanges[i].pc \in {"done", "caught"} /\ ~Succeeded(exchanges[i])) =>
               /\ exchanges[i].pc = "caught"
               /\ exchanges[i].botIdx = 0
               /\ messages[exchanges[i].userIdx] =
                    [text |-> exchanges[i].inputText, sender |-> "user"]
        /\ Cardinality(Logged) = Cardinality(Settled("caught"))
        /\ Cardinality(Records(messages, "bot")) = Cardinality(Settled("done"))
        /\ Len(requests) <= Len(exchanges))

\* One exchange failed on a first choice without text, another on a
\* non-success status whose body has no error object.
C5_Witness ==
  \E i, j \in Settled("caught") :
    /\ exchanges[i].ok /\ exchanges[i].data.kind = "noText"
    /\ ~exchanges[j].ok /\ exchanges[j].data.kind = "noError"

\* C6 as stated: the requests issued are as many as the user records, the
\* configuration without a credential included.
C6_Original == Len(requests) = Cardinality(Records(messages, "user"))

\* C6 amended: one request is issued per accepted submit made with a
\* credential, none for a submit made without one; the requests issued are
\* never more than the user records, and as many when every submit had a
\* credential.
C6_OneRequestPerKeyedSubmit ==
  /\ Len(requests) = Cardinality({i \in DOMAIN exchanges : exchanges[i].key # NoKey})
  /\ Len(requests) <= Cardinality(Records(messages, "user"))
  /\ \A r \in DOMAIN requests : requests[r].auth[2] # NoKey

\* Without a credential a user record exists and no request was issued.
C6_Witness ==
  apiKey = NoKey /\ Records(messages, "user") # {} /\ requests = <<>>

C8_ToggleFrame ==
  [][isExpanded' # isExpanded =>
       UNCHANGED <<messages, inputText, fileContent, exchanges, requests,
                   fetches, console>>]_vars

\* The widget is collapsed with a transcript and a request in flight.
C8_Witness ==
  ~isExpanded /\ messages # <<>> /\ Settled("fetch") # {}

\* C9 as stated: for a widget given a fileUrl, every request carries the
\* document at that location in the context position of its prompt,
\* whenever the submit came.
C9_Original ==
  fileUrl # NoUrl =>
    \A i \in DOMAIN exchanges :
      exchanges[i].requestIdx # 0 =>
        requests[exchanges[i].requestIdx].prompt
          = Prompt(DocAt(fileUrl), exchanges[i].inputText)

C11_FailureLocal ==
  /\ [][/\ \A i \in DOMAIN exchanges :
             (exchanges[i].pc # "caught" /\ exchanges'[i].pc = "caught") =>
               /\ messages' = messages
               /\ \A j \in DOMAIN exchanges : j # i => exchanges'[j] = exchanges[j]
        /\ Accepted =>
             /\ SubSeq(exchanges', 1, Len(exchanges)) = exchanges
             /\ apiKey # NoKey =>
                  /\ Len(requests') = Len(requests) + 1
                  /\ exchanges'[Len(exchanges')].pc = "fetch"]_vars
  /\ [](/\ \A k \in DOMAIN messages :
             /\ messages[k].sender \in {"user", "bot"}
             /\ messages[k].sender = "bot" =>
                  \E i \in DOMAIN exchanges :
                    /\ Succeeded(exchanges[i])
                    /\ exchanges[i].botIdx = k
                    /\ messages[k].text = Stripped(exchanges[i].data.text)
        /\ \A i \in Settled("fetch") : ENABLED FetchResolve(i, TRUE)
        /\ \A i \in Settled("json") :
             \A t \in Completions :
               ENABLED JsonSettle(i, [kind |-> "text", text |-> t]))

\* The first submit failed for want of a credential; the second, made once
\* the credential was there, has its reply in the transcript.
C11_Witness ==
  /\ Len(exchanges) = 2
  /\ exchanges[1].pc = "caught" /\ exchanges[1].key = NoKey
  /\ exchanges[2].pc = "done" /\ exchanges[2].botIdx = Len(messages)
\* C14: a non-blank submit made while the credential is absent appends its
\* user record and clears the input, issues no request and ends in the catch
\* block; the credential is read at each submit, so a submit made while it is
\* present issues one request carrying it, whatever earlier submits found.
\* No request ever belongs to a submit that found no credential.
C14_CredentialPerSubmit ==
  /\ [][Accepted =>
          /\ messages' = Append(messages, [text |-> inputText, sender |-> "user"])
          /\ inputText' = <<>>
          /\ exchanges'[Len(exchanges')].key = apiKey
          /\ IF apiKey = NoKey
             THEN /\ requests' = requests
                  /\ exchanges'[Len(exchanges')].pc = "caught"
                  /\ console' = Append(console, Caught(<<"API key is missing.">>))
             ELSE /\ Len(requests') = Len(requests) + 1
                  /\ requests'[Len(requests')].auth = <<"Bearer ", apiKey>>
                  /\ exchanges'[Len(exchanges')].requestIdx = Len(requests')
                  /\ exchanges'[Len(exchanges')].pc = "fetch"]_vars
  /\ [](/\ \A i \in DOMAIN exchanges :
             exchanges[i].key = NoKey =>
               exchanges[i].requestIdx = 0 /\ exchanges[i].pc = "caught"
        /\ Len(requests) = Cardinality({i \in DOMAIN exchanges : exchanges[i].key # NoKey}))

\* A submit without credential issued nothing; the next one, made after the
\* credential was set, issued the only request.
C14_Witness ==
  /\ Len(exchanges) = 2 /\ Len(messages) >= 2
  /\ exchanges[1].key = NoKey /\ exchanges[1].requestIdx = 0
  /\ exchanges[2].key # NoKey /\ exchanges[2].requestIdx = 1
  /\ Len(requests) = 1
\* C12: the widget is collapsed or expanded and starts collapsed; expanding
\* is offered in the collapsed view only and collapsing in the expanded view
\* only; submitting is offered in the expanded view only, so a user record is
\* appended only while expanded. Toggling leaves the exchanges and requests
\* as they are: an exchange in flight while the widget is collapsed still
\* takes its response and appends its bot record.
C12_TwoStates ==
  /\ ~isExpanded
  /\ [](/\ isExpanded \in BOOLEAN
        /\ isExpanded => ENABLED Collapse /\ ~ENABLED Expand
        /\ ~isExpanded => /\ ENABLED Expand
                          /\ ~ENABLED Collapse
                          /\ ~ENABLED HandleSendMessage
        /\ \A i \in Settled("fetch") : ENABLED FetchResolve(i, TRUE)
        /\ \A i \in Settled("json") :
             ENABLED JsonSettle(i, [kind |-> "text", text |-> <<" ">>]))
  /\ [][/\ Records(messages', "user") # Records(messages, "user") =>
             isExpanded /\ isExpanded'
        /\ isExpanded' # isExpanded =>
             exchanges' = exchanges /\ requests' = requests
        /\ \A i \in DOMAIN exchanges :
             (exchanges[i].pc = "json" /\ exchanges'[i].pc = "done") =>
               /\ messages' = Append(messages,
                    [text |-> Stripped(exchanges'[i].data.text), sender |-> "bot"])
               /\ isExpanded' = isExpanded]_vars

\* The request was issued while expanded and its bot record, the last of the
\* transcript, was appended while the widget was collapsed.
C12_Witness ==
  /\ ~isExpanded
  /\ \E i \in DOMAIN exchanges :
       /\ exchanges[i].pc = "done" /\ exchanges[i].collapsed
       /\ exchanges[i].botIdx = Len(messages)
       /\ messages[Len(messages)].sender = "bot"
InFlight == {i \in DOMAIN exchanges : exchanges[i].pc \notin {"done", "caught"}}

\* C13: when every issued request completes, every accepted submit finishes:
\* its exchange ends either with its bot record in the transcript or in the
\* catch block with its failure logged; and once the last submit has been
\* made the number of exchanges in flight returns to zero and stays there.
C13_ExchangesFinish ==
  /\ \A i \in 1..MaxExchanges :
       (i \in DOMAIN exchanges) ~>
         (/\ i \in DOMAIN exchanges
          /\ \/ /\ exchanges[i].pc = "done"
                /\ exchanges[i].botIdx \in Records(messages, "bot")
             \/ /\ exchanges[i].pc = "caught"
                /\ Cardinality(Logged) = Cardinality(Settled("caught")))
  /\ <>[](InFlight = {})

\* Two submits have finished, one with its bot record and one with a logged
\* failure of its request; nothing is in flight.
C13_Witness ==
  /\ Len(exchanges) = 2 /\ InFlight = {}
  /\ \E i, j \in DOMAIN exchanges :
       /\ exchanges[i].pc = "done" /\ exchanges[i].botIdx \in Records(messages, "bot")
       /\ exchanges[j].pc = "caught" /\ exchanges[j].requestIdx # 0
  /\ Len(console) = 1
Responded == {i \in DOMAIN exchanges : exchanges[i].ok}
BotRecordsOf(r) ==
  {k \in Records(messages, "bot") :
     \E i \in DOMAIN exchanges : exchanges[i].requestIdx = r /\ exchanges[i].botIdx = k}

\* C15: there are at most as many bot records as success responses, at most
\* as many success responses as requests issued, and at most as many requests
\* as user records; every bot record belongs to one request and no request
\* has more than one bot record.
C15_Counts ==
  /\ Cardinality(Records(messages, "bot")) <= Cardinality(Responded)
  /\ Cardinality(Responded) <= Len(requests)
  /\ Len(requests) <= Cardinality(Records(messages, "user"))
  /\ \A r \in DOMAIN requests : Cardinality(BotRecordsOf(r)) <= 1
  /\ \A k \in Records(messages, "bot") : \E r \in DOMAIN requests : k \in BotRecordsOf(r)
  /\ \A i, j \in DOMAIN exchanges :
       (exchanges[i].requestIdx # 0 /\ exchanges[i].requestIdx = exchanges[j].requestIdx)
         => i = j

\* Two requests got a success response; one gave a bot record and the other,
\* whose body had no completion, gave none.
C15_Witness ==
  /\ Cardinality(Records(messages, "user")) = 2
  /\ Len(requests) = 2
  /\ Cardinality(Responded) = 2
  /\ Cardinality(Records(messages, "bot")) = 1
  /\ Cardinality(BotRecordsOf(1)) + Cardinality(BotRecordsOf(2)) = 1
  /\ InFlight = {}
\* C16: an accepted submit leaves the input empty, and a submit made with the
\* input empty is rejected and appends nothing; a rejected submit leaves the
\* input as it was; the input changes only by typing in the expanded view or
\* by an accepted submit: no step of an exchange (response, body, failure) and
\* no step of the context fetch changes it.
C16_InputFrame ==
  [][/\ Accepted => inputText' = <<>>
     /\ inputText = <<>> => ~Accepted
     /\ (rejected' # <<>> /\ rejected' # rejected) =>
          /\ inputText' = inputText
          /\ rejected' = <<inputText>>
          /\ messages' = messages /\ exchanges' = exchanges /\ requests' = requests
     /\ (exchanges' # exchanges /\ ~Accepted) => inputText' = inputText
     /\ (fetches' # fetches \/ fileContent' # fileContent) => inputText' = inputText
     /\ inputText' # inputText =>
          \/ Accepted
          \/ /\ isExpanded
             /\ UNCHANGED <<isExpanded, messages, fileContent, exchanges, requests,
                            fetches, console>>]_vars

\* The submit that followed an accepted submit, with no typing in between,
\* found the input empty and was rejected: one user record, input empty.
C16_Witness ==
  /\ rejected = <<(<<>>)>>
  /\ inputText = <<>>
  /\ Len(exchanges) = 1 /\ exchanges[1].pc = "fetch"
  /\ Len(messages) = 1 /\ messages[1].sender = "user"
Fired == {k \in DOMAIN timers : timers[k].pc = "fired"}

\* C17 (timer variant): every accepted submit of an input x sets one timer;
\* the timer runs no sooner than its delay has elapsed and appends one bot
\* record "You said: x", x being the text of the submit's user record and not
\* the input at expiry; nothing fails; replies come in the order of the
\* submits; a timer runs whether the widget is expanded or not; and every
\* timer eventually runs.
C17_TimerReply ==
  /\ [][/\ Len(timers') > Len(timers) =>
             /\ timers' = Append(timers, Timer(inputText, Delay, Len(messages')))
             /\ messages' = Append(messages, [text |-> inputText, sender |-> "user"])
             /\ ~IsBlank(inputText)
        /\ \A k \in DOMAIN timers :
             (timers[k].pc = "pending" /\ timers'[k].pc = "fired") =>
               /\ timers[k].remaining = 0
               /\ messages' = Append(messages,
                    [text |-> <<"You said: ">> \o messages[timers[k].userIdx].text,
                     sender |-> "bot"])
               /\ timers'[k].botIdx = Len(messages')
               /\ isExpanded' = isExpanded
        /\ \A k \in Fired : timers'[k] = timers[k]]_vars
  /\ [](/\ console = <<>>
        /\ Cardinality(Records(messages, "bot")) = Cardinality(Fired)
        /\ Cardinality(Records(messages, "user")) = Len(timers)
        /\ \A k \in Fired :
             /\ messages[timers[k].botIdx] = BotEcho(timers[k].inputText)
             /\ timers[k].userIdx < timers[k].botIdx
             /\ \A j \in 1..(k - 1) : j \in Fired /\ timers[j].botIdx < timers[k].botIdx
        /\ \A k \in DOMAIN timers :
             (timers[k].pc = "pending" /\ timers[k].remaining = 0
                /\ (k - 1) \in Fired \cup {0}) => ENABLED TimerFire(k))
  /\ \A k \in 1..MaxTimers :
       (k \in DOMAIN timers) ~> (k \in Fired)

\* Two submits of different texts, the second made while the first timer was
\* waiting; both timers ran, in the order of the submits, the second while
\* the widget was collapsed.
C17_Witness ==
  /\ Len(timers) = 2 /\ Fired = {1, 2}
  /\ timers[1].inputText # timers[2].inputText
  /\ timers[2].userIdx < timers[1].botIdx
  /\ timers[1].botIdx < timers[2].botIdx
  /\ timers[2].collapsed /\ ~isExpanded
  /\ messages[4].text = <<"You said: ">> \o messages[2].text
====
